---- MODULE Spec2Model ----
\* Orders microservice: the order creation saga (CreateOrderHandler), the
\* status commands and payment events (OrdersController, ChangeOrderStatusHandler,
\* MarkOrderAsPaidHandler) and the Prisma order store (PrismaOrderRepository).
EXTENDS Integers, Sequences, FiniteSets, TLC

VARIABLES
    orders,     \* table "orders" joined with "order_items": order id -> row
    receipts,   \* table "order_receipts": sequence of rows
    req,        \* CreateOrderHandler.execute executions, one per request slot
    chg,        \* ChangeOrderStatusHandler.execute executions
    last        \* the handler execution that completed last, with its outcome

vars == <<orders, receipts, req, chg, last>>

-----------------------------------------------------------------------------
\* Bounds of the model.

\* Lines of one createOrder request.
MaxItems == 2
\* Store writes per order row after which the model stops writing to it.
MaxWrites == 3

\* Orders of the store that findAllOrders is run against.
MaxOrders == 3
\* Pages and page sizes a findAllOrders request asks for.
MaxPage == 2
MaxLimit == 2

\* createOrder executions of a behaviour; execution r generates order id r.
RequestIds == {1}
\* ChangeOrderStatusHandler executions that can be in flight together.
ChangeIds == {1}
\* Quantities of a line (IsPositive).
Quantities == {1, 2}
\* Order ids a command or an event can name. An id is absent from the store
\* until its createOrder has persisted it, and for good when that failed.
OrderIds == RequestIds
Products == {"P1", "P2"}
\* Prices the catalog may return (the catalog is external: nothing keeps it
\* from returning a negative price).
Prices == {-1, 2}
PaymentIds == {"PAY1"}
\* stripeChargeId of a payment.succeeded event: optional.
ChargeIds == {"null", "CH1"}

-----------------------------------------------------------------------------
\* Domain enums and rows.

OrderStatusList == {"PENDING", "PAID", "DELIVERED", "CANCELLED", "REFUNDED", "PAYMENT_FAILED"}
PrismaOrderStatus == {"PENDING", "PAID", "DELIVERED", "CANCELLED", "REFUNDED"}

\* paidAt DateTime? : 0 stands for NULL, timestamps are >= 1.
NullDate == 0

RECURSIVE SumSeq(_)
SumSeq(s) == IF s = <<>> THEN 0 ELSE Head(s) + SumSeq(Tail(s))

\* The lines a validated CreateOrderDto can carry.
\* (Of the second product only the quantity 1 is ordered: one product in two
\* quantities is enough to tell quantities apart.)
OrderItemDto ==
    {d \in [productId : Products, quantity : Quantities] :
        d.productId = "P1" \/ d.quantity = 1}
\* The items arrays a createOrder payload can carry, the empty one included.
CreateOrderPayloads == UNION {[1..n -> OrderItemDto] : n \in 0..MaxItems}

\* A CreateOrderDto without a minimum size of items.
ArrayMinSizeNone(items) == TRUE

\* @ArrayMinSize(1) items, enforced by the global ValidationPipe before the
\* controller method runs: a rejected payload never reaches the handler.
ArrayMinSize(items) == Len(items) >= 1

CreateOrderDtoItems == {items \in CreateOrderPayloads : ArrayMinSize(items)}

\* What validateProductsByIds can resolve to for the ids asked: a failure, or
\* entries for any subset of them.
ProductValidationInfo == [price : Prices, available : BOOLEAN]
CatalogResponses(ids) ==
    UNION {[S -> ProductValidationInfo] : S \in SUBSET ids}

\* OrderItem constructor: throws on quantity <= 0 or price < 0.
OrderItemThrows(item) == item.quantity <= 0 \/ item.price < 0

\* mapToDomain: builds an OrderItem per row, so it throws when one does.
MapToDomainThrows(row) ==
    \E i \in DOMAIN row.items : OrderItemThrows(row.items[i])

\* An optional constructor argument that was not passed (item ids are >= 1,
\* names are not the empty string).
Undefined == 0

\* new OrderItem(productId, quantity, price, name?, id?)
OrderItem(productId, quantity, price, name, id) ==
    [productId |-> productId, quantity |-> quantity, price |-> price,
     name |-> name, id |-> id]

\* mapToDomain: new OrderItem(item.productId, item.quantity, item.price, item.id),
\* four arguments: the row's id is passed where the constructor takes the name.
MapToDomain(row) ==
    [i \in DOMAIN row.items |->
        OrderItem(row.items[i].productId, row.items[i].quantity, row.items[i].price,
                  row.items[i].id, Undefined)]

ReceiptsOf(id) == {i \in DOMAIN receipts : receipts[i].orderId = id}

\* A row placeholder for "no such order".
NoOrder ==
    [status |-> "NONE", paid |-> FALSE, paidAt |-> NullDate, stripeChargeId |-> "null",
     totalAmount |-> 0, totalItems |-> 0, items |-> <<>>,
     createdAt |-> NullDate, updatedAt |-> NullDate]

RowOf(id) == IF id \in DOMAIN orders THEN orders[id] ELSE NoOrder

-----------------------------------------------------------------------------
\* CreateOrderHandler.execute

\* result is the status of the RpcException the caller gets ("ok" when the
\* handler returned); cause says where the failure arose; returned is the
\* order id of the response (0: nothing was returned).
IdleReq ==
    [pc |-> "idle", items |-> <<>>, productMap |-> [p \in {} |-> 0],
     data |-> NoOrder, calls |-> <<>>, result |-> "none", cause |-> "none",
     returned |-> 0]

\* What the execution that just ended did: the handler, the order id it was
\* about and how it was reached, its outcome, the status and the number of
\* receipts of that order before its last step, and whether that step
\* changed the store; to is the status a changeOrderStatus that loaded its
\* order asked for.
Outcome(op, id, via, result, cause) ==
    [op |-> op, id |-> id, via |-> via, result |-> result, cause |-> cause,
     to |-> "NONE",
     preStatus |-> RowOf(id).status, preReceipts |-> Cardinality(ReceiptsOf(id)),
     changed |-> (orders' # orders \/ receipts' # receipts)]

\* A port method is awaited once at each call site: one more call in the
\* execution's record of the calls it made.
InvokeWithRetry(calls, method) == calls \o <<method, method>>

Invoke(calls, method) == Append(calls, method)

\* 1-2. Extract the product ids and call the catalog.
ProductIdsOf(items) == [i \in DOMAIN items |-> items[i].productId]

CreateOrderStart(r, items) ==
    /\ req[r].pc = "idle"
    /\ req' = [req EXCEPT ![r] =
                  [@ EXCEPT !.pc = "validating", !.items = items,
                            !.calls = Invoke(<<>>, "validateProductsByIds")]]
    /\ UNCHANGED <<orders, receipts, chg, last>>

\* The first line whose product is missing from the map or not available
\* (0 when none): items.map throws at that line.
FirstMissingLine(items, productMap) ==
    LET bad == {i \in DOMAIN items : items[i].productId \notin DOMAIN productMap}
    IN IF bad = {} THEN 0 ELSE CHOOSE i \in bad : \A j \in bad : i <= j

FirstBadLine(items, productMap) ==
    LET bad == {i \in DOMAIN items :
                    \/ items[i].productId \notin DOMAIN productMap
                    \/ ~productMap[items[i].productId].available}
    IN IF bad = {} THEN 0 ELSE CHOOSE i \in bad : \A j \in bad : i <= j

\* 3. Totals and order items with the validated prices.
OrderItemsData(r, items, productMap) ==
    [i \in DOMAIN items |->
        [id |-> (r - 1) * MaxItems + i,
         productId |-> items[i].productId,
         quantity |-> items[i].quantity,
         price |-> productMap[items[i].productId].price]]

OrderDataUnitTotals(r, items, productMap) ==
    LET its == OrderItemsData(r, items, productMap)
    IN [status |-> "PENDING", paid |-> FALSE, paidAt |-> NullDate,
        stripeChargeId |-> "null",
        totalAmount |-> SumSeq([i \in DOMAIN its |-> its[i].price]),
        totalItems |-> Len(its),
        items |-> its, createdAt |-> 1, updatedAt |-> 1]

\* An order row inserted as already paid.
OrderDataInsertedPaid(r, items, productMap) ==
    LET its == OrderItemsData(r, items, productMap)
    IN [status |-> "PAID", paid |-> TRUE, paidAt |-> 1,
        stripeChargeId |-> "null",
        totalAmount |-> SumSeq([i \in DOMAIN its |-> its[i].price * its[i].quantity]),
        totalItems |-> SumSeq([i \in DOMAIN its |-> its[i].quantity]),
        items |-> its, createdAt |-> 1, updatedAt |-> 1]

OrderData(r, items, productMap) ==
    LET its == OrderItemsData(r, items, productMap)
    IN [status |-> "PENDING", paid |-> FALSE, paidAt |-> NullDate,
        stripeChargeId |-> "null",
        totalAmount |-> SumSeq([i \in DOMAIN its |-> its[i].price * its[i].quantity]),
        totalItems |-> SumSeq([i \in DOMAIN its |-> its[i].quantity]),
        items |-> its, createdAt |-> 1, updatedAt |-> 1]

\* The handler ends: with the response {id, order, paymentSession}, or with
\* the RpcException its catch block rethrows.
Finish(r, result, cause) ==
    /\ req' = [req EXCEPT ![r] =
                  [IdleReq EXCEPT !.pc = IF result = "ok" THEN "done" ELSE "failed",
                                  !.data = req[r].data,
                                  !.result = result, !.cause = cause,
                                  !.returned = IF result = "ok" THEN r ELSE 0,
                                  !.calls = req[r].calls]]
    /\ last' = Outcome("createOrder", r, "command", result, cause)

\* The catalog call failed: the adapter's RpcException is rethrown.
CatalogFails(r) ==
    /\ req[r].pc = "validating"
    /\ UNCHANGED <<orders, receipts, chg>>
    /\ Finish(r, "500", "catalog")

\* The catalog answered: lines are priced, then the repository is called.
CatalogReturns(r, productMap) ==
    /\ req[r].pc = "validating"
    /\ LET bad == FirstBadLine(req[r].items, productMap)
       IN IF bad # 0
          THEN /\ UNCHANGED <<orders, receipts, chg>>
               /\ Finish(r, "400",
                         IF req[r].items[bad].productId \notin DOMAIN productMap
                         THEN "productNotFound" ELSE "productNotAvailable")
          ELSE /\ req' = [req EXCEPT ![r] =
                            [@ EXCEPT !.pc = "creating", !.productMap = productMap,
                                      !.data = OrderData(r, req[r].items, productMap),
                                      !.calls = Invoke(@, "create")]]
               /\ UNCHANGED <<orders, receipts, chg, last>>

\* 4. PrismaOrderRepository.create: the nested write is one transaction, so
\* the header and the items are persisted together or not at all.
\* A create whose header insert would survive the failure of the item insert.
CreateWritesRegardless(dbOk) == TRUE

CreateWrites(dbOk) == dbOk

\* The created row is then mapped to the domain inside the same try block:
\* create returns only when the write succeeded and mapToDomain did not throw;
\* any throw ends in the repository's 'Database error creating order.'.
CreateReturnsUnchecked(data, dbOk) == TRUE

CreateReturns(data, dbOk) == dbOk /\ ~MapToDomainThrows(data)

RepositoryCreate(r, dbOk) ==
    /\ req[r].pc = "creating"
    /\ orders' = IF CreateWrites(dbOk)
                 THEN [id \in DOMAIN orders \cup {r} |->
                          IF id = r THEN req[r].data ELSE orders[id]]
                 ELSE orders
    /\ UNCHANGED <<receipts, chg>>
    /\ IF CreateReturns(req[r].data, dbOk)
       THEN /\ req' = [req EXCEPT ![r] =
                         [@ EXCEPT !.pc = "paying",
                                   !.calls = Invoke(@, "createPaymentSession")]]
            /\ UNCHANGED last
       ELSE Finish(r, "500", IF dbOk THEN "mapToDomain" ELSE "db")

\* 5-6. The payment session call returns, and the handler returns the order
\* with the session; or it fails, and the catch block rethrows the adapter's
\* RpcException. Nothing compensates the created order.
AfterPaymentSwallowed(ok) ==
    [result |-> "ok", cause |-> IF ok THEN "none" ELSE "payment"]

AfterPayment(ok) ==
    IF ok THEN [result |-> "ok", cause |-> "none"]
    ELSE [result |-> "500", cause |-> "payment"]

OrdersRolledBack(r, ok) ==
    IF ok THEN orders ELSE [id \in DOMAIN orders \ {r} |-> orders[id]]

OrdersAfterPayment(r, ok) == orders

PaymentReturns(r, ok) ==
    /\ req[r].pc = "paying"
    /\ orders' = OrdersAfterPayment(r, ok)
    /\ UNCHANGED <<receipts, chg>>
    /\ Finish(r, AfterPayment(ok).result, AfterPayment(ok).cause)

\* Store writes bump updatedAt (@updatedAt); new Date() of the same write is
\* that instant.
Now(id) == orders[id].updatedAt + 1

ReceiptUrl(paymentId) == <<"https://receipts.example.com/payments/", paymentId>>

\* OrderReceipt.orderId is @unique: a second receipt for one order is refused.
NoReceiptConflict(id) == FALSE

ReceiptConflict(id) == ReceiptsOf(id) # {}

\* The RpcException a repository failure ends in: 404 for P2025, else 500.
RepositoryResultIdempotent(cause) ==
    CASE cause \in {"none", "unique"} -> "ok" [] cause = "notFound" -> "404" [] OTHER -> "500"

\* The same without the P2025 case.
RepositoryResultNoP2025(cause) ==
    CASE cause = "none" -> "ok" [] OTHER -> "500"

RepositoryResult(cause) ==
    CASE cause = "none" -> "ok" [] cause = "notFound" -> "404" [] OTHER -> "500"

\* MarkOrderAsPaidHandler.execute -> PrismaOrderRepository.markAsPaid: one
\* order.update with a nested receipt create, a single transaction.
\* The same update against a table without the unique index on orderId.
MarkAsPaidCauseNoUniqueIndex(id, dbOk) ==
    IF ~dbOk THEN "db"
    ELSE IF id \notin DOMAIN orders THEN "notFound"
    ELSE IF MapToDomainThrows(orders[id]) THEN "mapToDomain"
    ELSE "none"

MarkAsPaidCause(id, dbOk) ==
    IF ~dbOk THEN "db"
    ELSE IF id \notin DOMAIN orders THEN "notFound"
    ELSE IF ReceiptConflict(id) THEN "unique"
    ELSE IF MapToDomainThrows(orders[id]) THEN "mapToDomain"
    ELSE "none"

\* A markAsPaid that no receipt would stop.
MarkAsPaidWritesAgain(id, dbOk) == dbOk /\ id \in DOMAIN orders

MarkAsPaidWrites(id, dbOk) == MarkAsPaidCause(id, dbOk) \in {"none", "mapToDomain"}

\* A write of the status alone, as updateStatus does it.
PaidRowStatusOnly(row, at, chargeId) ==
    [row EXCEPT !.status = "PAID", !.updatedAt = at]

\* paymentData.stripeChargeId: the event's stripeChargeId, or its paymentId
\* when that is absent.
StripePaymentIdNoFallback(paymentId, stripeChargeId) == stripeChargeId

StripePaymentId(paymentId, stripeChargeId) ==
    IF stripeChargeId # "null" THEN stripeChargeId ELSE paymentId

\* A write of the paid fields that leaves the status as it is.
PaidRowKeepingStatus(row, at, chargeId) ==
    [row EXCEPT !.paid = TRUE, !.paidAt = at, !.stripeChargeId = chargeId,
                !.updatedAt = at]

PaidRow(row, at, chargeId) ==
    [row EXCEPT !.status = "PAID", !.paid = TRUE, !.paidAt = at,
                !.stripeChargeId = chargeId, !.updatedAt = at]

\* The outcome of the handler carries the payment event whose data it wrote
\* (NoEvent when it wrote nothing).
NoEvent == [paymentId |-> "null", stripeChargeId |-> "null"]

MarkOrderAsPaid(id, paymentId, stripeChargeId, dbOk) ==
    LET chargeId == StripePaymentId(paymentId, stripeChargeId)
        cause == MarkAsPaidCause(id, dbOk)
    IN /\ IF MarkAsPaidWrites(id, dbOk)
          THEN /\ orders[id].updatedAt < MaxWrites
               /\ orders' = [orders EXCEPT ![id] = PaidRow(@, Now(id), chargeId)]
               /\ receipts' = Append(receipts,
                                     [orderId |-> id, receiptUrl |-> ReceiptUrl(paymentId)])
          ELSE UNCHANGED <<orders, receipts>>
       /\ last' = Outcome("markAsPaid", id, "payment.succeeded",
                          RepositoryResult(cause), cause)
                     @@ [wrote |-> IF MarkAsPaidWrites(id, dbOk)
                                   THEN [paymentId |-> paymentId,
                                         stripeChargeId |-> stripeChargeId]
                                   ELSE NoEvent]
       /\ UNCHANGED <<req, chg>>

\* A controller whose payment.failed method would ask for PAYMENT_FAILED.
ChangeInputsFailedAsFailed ==
    {<<"command", s>> : s \in OrderStatusList}
    \cup {<<"payment.cancelled", "CANCELLED">>, <<"payment.refunded", "REFUNDED">>,
          <<"payment.failed", "PAYMENT_FAILED">>}

\* ChangeOrderStatusHandler.execute, reached by the changeOrderStatus command
\* and by the payment.cancelled / payment.refunded / payment.failed events.
ChangeInputs ==
    {<<"command", s>> : s \in OrderStatusList}
    \cup {<<"payment.cancelled", "CANCELLED">>, <<"payment.refunded", "REFUNDED">>,
          <<"payment.failed", "CANCELLED">>}

\* seen is the status of the order as findById loaded it.
IdleChg ==
    [pc |-> "idle", id |-> 1, status |-> "PENDING", via |-> "command", seen |-> "NONE"]

\* findById: null when the row is absent, and also when the read or the
\* mapping throws (the catch block returns null).
\* A findById whose catch block would not turn a failed read into null.
FindByIdUncaught(id, dbOk) ==
    IF id \in DOMAIN orders /\ ~MapToDomainThrows(orders[id])
    THEN orders[id] ELSE NoOrder

FindById(id, dbOk) ==
    IF dbOk /\ id \in DOMAIN orders /\ ~MapToDomainThrows(orders[id])
    THEN orders[id] ELSE NoOrder

\* Whether the handler goes on to updateStatus for the order it loaded: it
\* returns early only when the status is already the requested one.
NeedsUpdateAlways(order, status) == TRUE

NeedsUpdate(order, status) == order.status # status

\* First half: load the order, reject a missing one, return early on an equal status.
ChangeFind(p, id, via, status, dbOk) ==
    /\ chg[p].pc = "idle"
    /\ LET order == FindById(id, dbOk)
       IN IF order = NoOrder
          THEN /\ UNCHANGED <<orders, receipts, req, chg>>
               /\ last' = Outcome("changeOrderStatus", id, via, "404", "notFound")
          ELSE IF ~NeedsUpdate(order, status)
          THEN /\ UNCHANGED <<orders, receipts, req, chg>>
               /\ last' = [Outcome("changeOrderStatus", id, via, "ok", "same")
                              EXCEPT !.to = status]
          ELSE /\ chg' = [chg EXCEPT ![p] =
                            [pc |-> "updating", id |-> id, status |-> status, via |-> via,
                             seen |-> order.status]]
               /\ UNCHANGED <<orders, receipts, req, last>>

\* updateStatus: P2025 when the row is absent; a status outside the Prisma
\* enum is refused by the client; otherwise only status (and updatedAt) change.
\* The same against a status column that would take any string.
UpdateStatusCauseAnyStatus(id, status, dbOk) ==
    IF ~dbOk THEN "db"
    ELSE IF id \notin DOMAIN orders THEN "notFound"
    ELSE IF MapToDomainThrows(orders[id]) THEN "mapToDomain"
    ELSE "none"

UpdateStatusCause(id, status, dbOk) ==
    IF ~dbOk THEN "db"
    ELSE IF status \notin PrismaOrderStatus THEN "enum"
    ELSE IF id \notin DOMAIN orders THEN "notFound"
    ELSE IF MapToDomainThrows(orders[id]) THEN "mapToDomain"
    ELSE "none"

\* A status write that would also rewrite the header's totals.
StatusRowResettingTotals(row, at, status) ==
    [row EXCEPT !.status = status, !.updatedAt = at, !.totalItems = 0]

\* A status write that would also clear the paid flag.
StatusRowClearingPaid(row, at, status) ==
    [row EXCEPT !.status = status, !.updatedAt = at, !.paid = FALSE]

StatusRow(row, at, status) == [row EXCEPT !.status = status, !.updatedAt = at]

\* What the transport gets back from the controller method: a command's
\* RpcException reaches the caller; the payment event methods catch every
\* error of the command bus, log it and return nothing.
ControllerResultRethrown(via, result) == result

\* A controller whose event methods would absorb a 404 only.
ControllerResultSurfacingStore(via, result) ==
    IF via = "command" \/ result = "500" THEN result
    ELSE IF result = "ok" THEN "ok" ELSE "logged"

ControllerResult(via, result) ==
    IF via = "command" THEN result ELSE IF result = "ok" THEN "ok" ELSE "logged"

\* Second half: the write.
ChangeUpdate(p, dbOk) ==
    LET id == chg[p].id
        cause == UpdateStatusCause(id, chg[p].status, dbOk)
    IN /\ chg[p].pc = "updating"
       /\ IF cause \in {"none", "mapToDomain"}
          THEN /\ orders[id].updatedAt < MaxWrites
               /\ orders' = [orders EXCEPT ![id] = StatusRow(@, Now(id), chg[p].status)]
          ELSE UNCHANGED orders
       /\ UNCHANGED <<receipts, req>>
       /\ last' = [Outcome("changeOrderStatus", id, chg[p].via,
                           RepositoryResult(cause), cause)
                      EXCEPT !.to = chg[p].status]
       /\ chg' = [chg EXCEPT ![p] = IdleChg]

\* FindOneOrderHandler.execute: load the order, then ask the catalog for the
\* names of its products. The catalog answers with names for any subset of
\* the ids (a name may be empty), or the call fails.
CatalogNames == {"Widget", ""}

NameResponses(ids) == UNION {[S -> CatalogNames] : S \in SUBSET ids}

\* productMap.get(item.productId) || 'Unknown Product'
ProductNameNoDefault(productMap, productId) ==
    IF productId \in DOMAIN productMap THEN productMap[productId] ELSE ""

ProductName(productMap, productId) ==
    IF productId \in DOMAIN productMap /\ productMap[productId] # ""
    THEN productMap[productId] ELSE "Unknown Product"

\* new OrderItem(item.productId, item.quantity, item.price, productName, item.id)
\* for each item of the order findById returned.
EnrichedItems(items, productMap) ==
    [i \in DOMAIN items |->
        OrderItem(items[i].productId, items[i].quantity, items[i].price,
                  ProductName(productMap, items[i].productId), items[i].id)]

\* The response of the query: the items of the order as returned, their names,
\* and the catalog answer they were resolved with.
QueryOutcome(id, result, cause, items, productMap) ==
    Outcome("findOneOrder", id, "query", result, cause)
        @@ [items |-> items, names |-> [i \in DOMAIN items |-> items[i].name],
            catalog |-> productMap]

FindOneOrder(id, dbOk, catalogOk, productMap) ==
    LET order == FindById(id, dbOk)
        none == [p \in {} |-> ""]
    IN /\ UNCHANGED <<orders, receipts, req, chg>>
       /\ last' =
            IF order = NoOrder
            THEN QueryOutcome(id, "404", "notFound", <<>>, none)
            ELSE IF Len(order.items) = 0
            THEN QueryOutcome(id, "ok", "noItems", <<>>, none)
            ELSE IF ~catalogOk
            THEN QueryOutcome(id, "500", "catalog", <<>>, none)
            ELSE QueryOutcome(id, "ok", "none",
                              EnrichedItems(MapToDomain(order), productMap), productMap)

\* PrismaOrderRepository.findAllPaginated, called by FindAllOrdersHandler:
\* count and findMany with the same where clause, skip and take. The status
\* filter ("NONE": no filter) is any status of the domain enum; one outside
\* the Prisma enum is refused by the client. findMany has no orderBy: rows
\* come in an order the database chooses.
Matching(status) ==
    {id \in DOMAIN orders : status = "NONE" \/ orders[id].status = status}

RowOrders(ids) ==
    {f \in [1..Cardinality(ids) -> ids] :
        \A i, j \in DOMAIN f : i # j => f[i] # f[j]}

Skip(page, limit) == (page - 1) * limit

\* Math.ceil(totalOrders / limit)
LastPage(total, limit) == (total + limit - 1) \div limit

PageOf(rows, page, limit) ==
    LET from == Skip(page, limit) + 1
        upto == IF Skip(page, limit) + limit < Len(rows)
                THEN Skip(page, limit) + limit ELSE Len(rows)
    IN SubSeq(rows, from, upto)

FindAllCause(status, data, dbOk) ==
    IF ~dbOk THEN "db"
    ELSE IF status \notin PrismaOrderStatus \cup {"NONE"} THEN "enum"
    ELSE IF \E i \in DOMAIN data : MapToDomainThrows(orders[data[i]]) THEN "mapToDomain"
    ELSE "none"

FindAllOrders(page, limit, status, rows, dbOk) ==
    LET data == PageOf(rows, page, limit)
        cause == FindAllCause(status, data, dbOk)
        request == [page |-> page, limit |-> limit, status |-> status]
    IN /\ UNCHANGED <<orders, receipts, req, chg>>
       /\ last' =
            IF cause = "none"
            THEN Outcome("findAllOrders", 0, "query", "ok", cause)
                   @@ [request |-> request, data |-> data,
                       meta |-> [total |-> Len(rows), page |-> page,
                                 lastPage |-> LastPage(Len(rows), limit)]]
            ELSE Outcome("findAllOrders", 0, "query", "500", cause)
                   @@ [request |-> request, data |-> <<>>,
                       meta |-> [total |-> 0, page |-> 0, lastPage |-> 0]]

-----------------------------------------------------------------------------
Init ==
    /\ orders = [id \in {} |-> NoOrder]
    /\ receipts = <<>>
    /\ req = [r \in RequestIds |-> IdleReq]
    /\ chg = [p \in ChangeIds |-> IdleChg]
    /\ last = [op |-> "none", id |-> 1, via |-> "command", result |-> "none",
               cause |-> "none", to |-> "NONE", preStatus |-> "NONE", preReceipts |-> 0,
               changed |-> FALSE]

CreateOrderNext ==
    \/ \E r \in RequestIds, items \in CreateOrderDtoItems : CreateOrderStart(r, items)
    \/ \E r \in RequestIds : CatalogFails(r)
    \/ \E r \in RequestIds :
          \E pm \in CatalogResponses({req[r].items[i].productId : i \in DOMAIN req[r].items}) :
              CatalogReturns(r, pm)
    \/ \E r \in RequestIds, dbOk \in BOOLEAN : RepositoryCreate(r, dbOk)
    \/ \E r \in RequestIds, ok \in BOOLEAN : PaymentReturns(r, ok)

PaymentSucceeded ==
    \E id \in OrderIds, pay \in PaymentIds, ch \in ChargeIds, dbOk \in BOOLEAN :
        MarkOrderAsPaid(id, pay, ch, dbOk)

Next ==
    \/ CreateOrderNext
    \/ PaymentSucceeded
    \/ \E p \in ChangeIds, id \in OrderIds, in \in ChangeInputs, dbOk \in BOOLEAN :
          ChangeFind(p, id, in[1], in[2], dbOk)
    \/ \E p \in ChangeIds, dbOk \in BOOLEAN : ChangeUpdate(p, dbOk)

Spec == Init /\ [][Next]_vars

\* The same system when the only payment events delivered are
\* payment.succeeded and payment.cancelled (and no command arrives).
NextRace ==
    \/ CreateOrderNext
    \/ PaymentSucceeded
    \/ \E p \in ChangeIds, id \in OrderIds, dbOk \in BOOLEAN :
          ChangeFind(p, id, "payment.cancelled", "CANCELLED", dbOk)
    \/ \E p \in ChangeIds, dbOk \in BOOLEAN : ChangeUpdate(p, dbOk)

SpecRace == Init /\ [][NextRace]_vars

\* The system with the findOneOrder query, when the only status command
\* issued is a change to DELIVERED.
FindOneOrderNext ==
    \E id \in OrderIds, dbOk \in BOOLEAN, catalogOk \in BOOLEAN :
        \E pm \in NameResponses(Products) : FindOneOrder(id, dbOk, catalogOk, pm)

NextQuery ==
    \/ CreateOrderNext
    \/ PaymentSucceeded
    \/ \E p \in ChangeIds, id \in OrderIds, dbOk \in BOOLEAN :
          ChangeFind(p, id, "command", "DELIVERED", dbOk)
    \/ \E p \in ChangeIds, dbOk \in BOOLEAN : ChangeUpdate(p, dbOk)
    \/ FindOneOrderNext

SpecQuery == Init /\ [][NextQuery]_vars

\* One findAllOrders against a store of up to MaxOrders orders, each in a
\* status a changeOrderStatus command can have given it.
StoredOrder(id, status) ==
    [OrderData(id, <<[productId |-> "P1", quantity |-> 1]>>,
               [p \in {"P1"} |-> [price |-> 2, available |-> TRUE]])
        EXCEPT !.status = status,
               !.updatedAt = IF status = "PENDING" THEN 1 ELSE 2]

InitPage ==
    /\ \E n \in 0..MaxOrders : \E st \in [1..n -> PrismaOrderStatus] :
          orders = [id \in 1..n |-> StoredOrder(id, st[id])]
    /\ receipts = <<>>
    /\ req = [r \in RequestIds |-> IdleReq]
    /\ chg = [p \in ChangeIds |-> IdleChg]
    /\ last = [op |-> "none", id |-> 1, via |-> "command", result |-> "none",
               cause |-> "none", to |-> "NONE", preStatus |-> "NONE", preReceipts |-> 0,
               changed |-> FALSE]

FindAllOrdersNext ==
    /\ last.op = "none"
    /\ \E page \in 1..MaxPage, limit \in 1..MaxLimit,
          status \in OrderStatusList \cup {"NONE"}, dbOk \in BOOLEAN :
           \E rows \in RowOrders(Matching(status)) :
               FindAllOrders(page, limit, status, rows, dbOk)

SpecPage == InitPage /\ [][FindAllOrdersNext]_vars

\* The system when payment.succeeded events are the only messages delivered
\* for an order besides its createOrder: each event is one execution of
\* MarkOrderAsPaidHandler, whose only access to the store is the single
\* markAsPaid transaction, so concurrent executions take effect in either
\* order of their transactions.
NextPaidTwice ==
    \/ CreateOrderNext
    \/ PaymentSucceeded

SpecPaidTwice == Init /\ [][NextPaidTwice]_vars

-----------------------------------------------------------------------------
\* Properties.

HasReceipt(id) == ReceiptsOf(id) # {}
Called(r, call) == \E i \in DOMAIN req[r].calls : req[r].calls[i] = call
NonPending == {"PAID", "DELIVERED", "CANCELLED", "REFUNDED", "PAYMENT_FAILED"}

\* C1: with only payment.succeeded and payment.cancelled events delivered for
\* an order created PENDING without a receipt, the order is at every moment
\* still PENDING and unpaid, or PAID with paid = true and one receipt, or
\* CANCELLED with paid = false and no receipt; never CANCELLED while paid or
\* while a receipt exists.
C1_RaceConverges ==
    \A id \in DOMAIN orders :
        \/ orders[id].status = "PENDING" /\ ~orders[id].paid /\ ~HasReceipt(id)
        \/ orders[id].status = "PAID" /\ orders[id].paid
              /\ Cardinality(ReceiptsOf(id)) = 1
        \/ orders[id].status = "CANCELLED" /\ ~orders[id].paid /\ ~HasReceipt(id)

\* C2: a payment session is requested only after the repository's create was
\* called and returned for that order, whose row is then in the store.
C2_PaymentAfterCreate ==
    \A r \in RequestIds :
        Called(r, "createPaymentSession") =>
            /\ r \in DOMAIN orders
            /\ req[r].calls = <<"validateProductsByIds", "create", "createPaymentSession">>

C2_Witness ==
    \E r \in RequestIds : req[r].pc = "paying" /\ r \in DOMAIN orders

\* C3: when the catalog call fails, or a line has no catalog entry or an
\* unavailable one, createOrder fails having called neither the repository's
\* create nor the payment port, and the store holds no row of the request;
\* create is only ever called with every line matched and available.
C3_NoWriteOnCatalogReject ==
    \A r \in RequestIds :
        /\ req[r].cause \in {"catalog", "productNotFound", "productNotAvailable"} =>
              /\ req[r].pc = "failed" /\ req[r].result # "ok"
              /\ req[r].calls = <<"validateProductsByIds">>
              /\ r \notin DOMAIN orders
        /\ req[r].pc \in {"creating", "paying"} =>
              \A i \in DOMAIN req[r].items :
                  /\ req[r].items[i].productId \in DOMAIN req[r].productMap
                  /\ req[r].productMap[req[r].items[i].productId].available

C3_Witness ==
    \E r \in RequestIds :
        /\ req[r].cause = "productNotAvailable"
        /\ last.op = "createOrder" /\ ~last.changed

\* C4: after createOrder ended on a payment session failure the order is
\* still in the store with all the items it was created with, the failing
\* step having changed nothing; and while no other handler has written to it
\* it is PENDING, unpaid and without a receipt.
C4_NoRollback ==
    \A r \in RequestIds :
        req[r].cause = "payment" =>
            /\ r \in DOMAIN orders
            /\ orders[r].items = req[r].data.items
            /\ Len(orders[r].items) >= 1
            /\ (last.op = "createOrder" => ~last.changed)
            /\ orders[r].updatedAt = orders[r].createdAt =>
                   /\ orders[r].status = "PENDING"
                   /\ ~orders[r].paid
                   /\ ~HasReceipt(r)

C4_Witness ==
    \E r \in RequestIds :
        /\ req[r].cause = "payment" /\ last.op = "createOrder"
        /\ r \in DOMAIN orders /\ Len(orders[r].items) = 2
        /\ orders[r].status = "PENDING"

C6_NothingCommittedOnCreateFailure ==
    \A r \in RequestIds :
        req[r].result = "500" /\ req[r].cause \in {"db", "mapToDomain"} =>
            r \notin DOMAIN orders

\* C7: every stored order has totalAmount = sum of price * quantity and
\* totalItems = sum of quantity over its items, whatever was done to it since;
\* and an order just created carries, line by line, the quantity requested and
\* the price the catalog returned for the line's product.
C7_TotalsFromCatalogPrices ==
    /\ \A id \in DOMAIN orders :
          LET its == orders[id].items
          IN /\ orders[id].totalAmount =
                    SumSeq([i \in DOMAIN its |-> its[i].price * its[i].quantity])
             /\ orders[id].totalItems = SumSeq([i \in DOMAIN its |-> its[i].quantity])
    /\ \A r \in RequestIds :
          req[r].pc = "paying" =>
              /\ DOMAIN orders[r].items = DOMAIN req[r].items
              /\ \A i \in DOMAIN req[r].items :
                    /\ orders[r].items[i].productId = req[r].items[i].productId
                    /\ orders[r].items[i].quantity = req[r].items[i].quantity
                    /\ orders[r].items[i].price =
                           req[r].productMap[req[r].items[i].productId].price

C7_Witness ==
    \E id \in DOMAIN orders :
        /\ Len(orders[id].items) = 2
        /\ orders[id].items[1].productId # orders[id].items[2].productId
        /\ orders[id].items[1].quantity = 2
        /\ orders[id].totalAmount = 6 /\ orders[id].totalItems = 3
        /\ orders[id].status = "DELIVERED"

\* C8: a payment.succeeded event for an order that is not PENDING fails and
\* leaves the order and its receipt unchanged.
C8_MarkPaidOnlyFromPending ==
    last.op = "markAsPaid" /\ last.preStatus \in NonPending =>
        last.result # "ok" /\ ~last.changed

\* C9: no order ever has two receipts, and a markPaid for an order that
\* already has its receipt (a repeated invocation) changes nothing in the
\* store: status, paid, paidAt, paymentReference and the receipt stay as the
\* first invocation left them.
C9_MarkPaidTwiceAsOnce ==
    /\ \A id \in OrderIds : Cardinality(ReceiptsOf(id)) <= 1
    /\ last.op = "markAsPaid" /\ last.preReceipts >= 1 => ~last.changed

C9_Witness ==
    /\ last.op = "markAsPaid" /\ last.preReceipts = 1 /\ last.cause = "unique"
    /\ last.id \in DOMAIN orders
    /\ orders[last.id].paid /\ orders[last.id].paidAt = orders[last.id].updatedAt

\* C10 as claimed: a markPaid for an order that is already PAID (and has its
\* receipt) succeeds, the order being one createOrder returned and the store
\* being reachable.
C10_ReplaySucceeds ==
    last.op = "markAsPaid" /\ last.preStatus = "PAID" /\ last.preReceipts >= 1
        /\ req[last.id].result = "ok" /\ last.cause # "db" => last.result = "ok"

\* C10 as amended: a markPaid for an order that is already PAID and has its
\* receipt changes nothing but is no success: the handler ends with the
\* repository's 500 'Database error marking order as paid.'.
C10_ReplayFailsWithoutEffect ==
    last.op = "markAsPaid" /\ last.preStatus = "PAID" /\ last.preReceipts >= 1 =>
        last.result = "500" /\ ~last.changed

C10_Witness ==
    /\ last.op = "markAsPaid" /\ last.preStatus = "PAID" /\ last.preReceipts = 1
    /\ last.result = "500" /\ last.cause = "unique"
    /\ orders[last.id].status = "PAID"

\* C11: in every state an order has paid = true exactly when one receipt
\* exists for it, and every receipt belongs to an order of the store: the paid
\* fields and the receipt are written together or not at all.
C11_PaidIffOneReceipt ==
    /\ \A id \in DOMAIN orders :
          orders[id].paid <=> Cardinality(ReceiptsOf(id)) = 1
    /\ \A i \in DOMAIN receipts : receipts[i].orderId \in DOMAIN orders

C11_Witness ==
    /\ last.op = "markAsPaid" /\ last.changed /\ last.preReceipts = 0
    /\ orders[last.id].paid /\ Cardinality(ReceiptsOf(last.id)) = 1

\* C12: in every state, for every order, paidAt and stripeChargeId are both
\* non-null exactly when paid is true (and both null when it is false).
C12_PaidFieldsIffPaid ==
    \A id \in DOMAIN orders :
        /\ (orders[id].paidAt # NullDate /\ orders[id].stripeChargeId # "null")
               <=> orders[id].paid
        /\ ~orders[id].paid =>
               orders[id].paidAt = NullDate /\ orders[id].stripeChargeId = "null"

C12_Witness ==
    \E id \in DOMAIN orders :
        /\ orders[id].paid /\ orders[id].paidAt # NullDate
        /\ orders[id].stripeChargeId \in PaymentIds
        /\ orders[id].status # "PAID"

\* C13: a changeOrderStatus command for an order that is DELIVERED or
\* CANCELLED, asking for another status, fails and leaves the order unchanged.
C13_TerminalRejectsChange ==
    last.op = "changeOrderStatus" /\ last.via = "command"
        /\ last.preStatus \in {"DELIVERED", "CANCELLED"}
        /\ last.to \notin {"NONE", last.preStatus} =>
            last.result # "ok" /\ ~last.changed

\* C14: a changeOrderStatus command to DELIVERED fails on a PENDING order,
\* which stays PENDING, and succeeds on a PAID order, which becomes DELIVERED
\* (the store being reachable).
C14_DeliveredOnlyFromPaid ==
    last.op = "changeOrderStatus" /\ last.via = "command" /\ last.to = "DELIVERED" =>
        /\ last.preStatus = "PENDING" =>
               last.result # "ok" /\ orders[last.id].status = "PENDING"
        /\ last.preStatus = "PAID" /\ last.cause # "db" =>
               last.result = "ok" /\ orders[last.id].status = "DELIVERED"

\* The transition table of the order state machine.
StateMachineEdges ==
    {<<"PENDING", "PAID">>, <<"PENDING", "CANCELLED">>, <<"PENDING", "PAYMENT_FAILED">>,
     <<"PAID", "DELIVERED">>, <<"PAID", "REFUNDED">>}

\* C15: every change of the persisted status of an order, by a command or a
\* payment event, is an edge of the transition table.
C15_ChangesFollowTable ==
    last.op \in {"markAsPaid", "changeOrderStatus"} /\ last.changed
        /\ last.preStatus # "NONE" /\ orders[last.id].status # last.preStatus =>
            <<last.preStatus, orders[last.id].status>> \in StateMachineEdges

\* C16: no command or event sets the status of an order that has left PENDING
\* back to PENDING.
C16_NeverBackToPending ==
    last.op \in {"markAsPaid", "changeOrderStatus"}
        /\ last.preStatus \in NonPending =>
            orders[last.id].status # "PENDING"

\* C17: a payment.refunded event for an order whose status is not PAID leaves
\* the order unchanged.
C17_RefundOnlyFromPaid ==
    last.op = "changeOrderStatus" /\ last.via = "payment.refunded"
        /\ last.preStatus # "PAID" =>
            ~last.changed

\* C18: a payment.cancelled or payment.failed event for an order that is
\* DELIVERED, CANCELLED or REFUNDED leaves the order unchanged.
C18_CancelOnTerminalIsNoOp ==
    last.op = "changeOrderStatus" /\ last.via \in {"payment.cancelled", "payment.failed"}
        /\ last.preStatus \in {"DELIVERED", "CANCELLED", "REFUNDED"} =>
            ~last.changed

\* C19: a changeOrderStatus that loads an order already in the requested
\* status succeeds without a store write, and updateStatus is reached only
\* when the loaded status differs from the requested one; so a second
\* payment.cancelled finding the order CANCELLED changes nothing.
C19_SameStatusIsNoWrite ==
    /\ \A p \in ChangeIds :
          chg[p].pc = "updating" => chg[p].seen # chg[p].status
    /\ last.op = "changeOrderStatus" /\ last.cause = "same" =>
          /\ last.result = "ok" /\ ~last.changed
          /\ last.to = last.preStatus
          /\ orders[last.id].status = last.to

C19_Witness ==
    /\ last.op = "changeOrderStatus" /\ last.via = "payment.cancelled"
    /\ last.cause = "same" /\ last.preStatus = "CANCELLED"
    /\ orders[last.id].updatedAt = orders[last.id].createdAt + 1

PaymentEvents ==
    {"payment.succeeded", "payment.cancelled", "payment.refunded", "payment.failed"}

\* C20: when a payment event names an unknown order, or is refused for an
\* order that has its receipt already, the controller method ends without
\* handing a failure to the transport: the error is logged only.
C20_EventErrorsAbsorbed ==
    last.via \in PaymentEvents /\ last.cause \in {"notFound", "unique"} =>
        /\ last.result \in {"404", "500"}
        /\ ControllerResult(last.via, last.result) = "logged"

C20_Witness ==
    /\ last.via = "payment.refunded" /\ last.cause = "notFound"
    /\ last.id \notin DOMAIN orders
    /\ ControllerResult(last.via, last.result) = "logged"

C22_MissingIdIsNotFound ==
    /\ last.op \in {"findOneOrder", "changeOrderStatus", "markAsPaid"}
          /\ last.preStatus = "NONE" /\ last.cause # "db" =>
              last.result = "404" /\ last.cause = "notFound" /\ ~last.changed
    /\ \A i \in DOMAIN receipts : receipts[i].orderId \in DOMAIN orders

C22_Witness ==
    /\ last.op = "markAsPaid" /\ last.preStatus = "NONE" /\ last.result = "404"
    /\ last.id \notin DOMAIN orders /\ receipts = <<>>

\* C23 as claimed: a findOneOrder that loaded its order succeeds whatever the
\* catalog does, also when the catalog call fails, and every item whose
\* product the catalog did not name is returned as "Unknown Product".
C23_ReadSurvivesCatalog ==
    last.op = "findOneOrder" /\ last.cause \in {"none", "catalog"} =>
        /\ last.result = "ok"
        /\ Len(last.names) = Len(orders[last.id].items)
        /\ \A i \in DOMAIN last.names :
              orders[last.id].items[i].productId \notin DOMAIN last.catalog =>
                  last.names[i] = "Unknown Product"

\* C23 as amended: when the catalog answers, findOneOrder succeeds and an
\* item is named as the catalog named its product, or "Unknown Product" when
\* the answer omits the product or names it with an empty string; when the
\* catalog call fails, findOneOrder fails with the catalog's error and
\* returns no order.
C23_ReadSurvivesOmissionOnly ==
    /\ last.op = "findOneOrder" /\ last.cause = "none" =>
          /\ last.result = "ok"
          /\ Len(last.names) = Len(orders[last.id].items)
          /\ \A i \in DOMAIN last.names :
                LET pid == orders[last.id].items[i].productId
                IN IF pid \in DOMAIN last.catalog /\ last.catalog[pid] # ""
                   THEN last.names[i] = last.catalog[pid]
                   ELSE last.names[i] = "Unknown Product"
    /\ last.op = "findOneOrder" /\ last.cause = "catalog" =>
          last.result = "500" /\ last.names = <<>>

C23_Witness ==
    /\ last.op = "findOneOrder" /\ last.result = "ok" /\ Len(last.names) = 2
    /\ last.names[1] = "Unknown Product" /\ last.names[2] = "Widget"
    /\ orders[last.id].items[1].productId \notin DOMAIN last.catalog

\* C24: findAllOrders(page, limit, status) with page >= 1 and limit >= 1
\* returns, the store being reachable, meta.total = the number of stored
\* orders matching the status filter, meta.page = page, meta.lastPage =
\* ceil(total / limit), and data = at most limit distinct matching orders,
\* as many as are left at offset (page - 1) * limit.
C24_PageOfMatchingOrders ==
    last.op = "findAllOrders" /\ last.cause # "db" =>
        LET page == last.request.page
            limit == last.request.limit
            total == Cardinality(Matching(last.request.status))
            left == IF total > (page - 1) * limit THEN total - (page - 1) * limit ELSE 0
        IN /\ last.result = "ok"
           /\ last.meta.total = total
           /\ last.meta.page = page
           /\ last.meta.lastPage * limit >= total
           /\ (last.meta.lastPage - 1) * limit < total \/ last.meta.lastPage = 0
           /\ Len(last.data) = IF left < limit THEN left ELSE limit
           /\ \A i \in DOMAIN last.data : last.data[i] \in Matching(last.request.status)
           /\ \A i, j \in DOMAIN last.data : i # j => last.data[i] # last.data[j]

\* C25: the list of product ids createOrder passes to the catalog holds each
\* requested product id once.
C25_ValidateCallDeduplicated ==
    \A r \in RequestIds :
        req[r].pc = "validating" =>
            LET ids == ProductIdsOf(req[r].items)
            IN \A i, j \in DOMAIN ids : i # j => ids[i] # ids[j]

\* C26: in a createOrder execution the catalog validate, the store create and
\* the payment session call are each made at most once and in that order, and
\* an execution that returned made each of them exactly once.
C26_NoStepRetried ==
    \A r \in RequestIds :
        /\ req[r].calls \in
              {<<>>, <<"validateProductsByIds">>, <<"validateProductsByIds", "create">>,
               <<"validateProductsByIds", "create", "createPaymentSession">>}
        /\ req[r].result = "ok" =>
              req[r].calls = <<"validateProductsByIds", "create", "createPaymentSession">>

C26_Witness ==
    \E r \in RequestIds :
        /\ req[r].pc = "done" /\ req[r].result = "ok" /\ req[r].returned = r
        /\ Len(req[r].calls) = 3

C28_CreatedPendingUnpaid ==
    \A id \in DOMAIN orders :
        orders[id].updatedAt = orders[id].createdAt =>
            /\ orders[id].status = "PENDING"
            /\ ~orders[id].paid
            /\ orders[id].paidAt = NullDate
            /\ orders[id].stripeChargeId = "null"
            /\ ~HasReceipt(id)

C28_Witness ==
    \E r \in RequestIds :
        /\ req[r].pc = "paying" /\ r \in DOMAIN orders
        /\ orders[r].updatedAt = orders[r].createdAt
        /\ orders[r].status = "PENDING" /\ Len(orders[r].items) = 2

\* C29: no step removes an order from the store or changes its items, its
\* totalAmount, its totalItems or its createdAt.
C29_OrderFrame ==
    [][\A id \in DOMAIN orders :
          /\ id \in DOMAIN orders'
          /\ orders'[id].items = orders[id].items
          /\ orders'[id].totalAmount = orders[id].totalAmount
          /\ orders'[id].totalItems = orders[id].totalItems
          /\ orders'[id].createdAt = orders[id].createdAt]_vars

C29_Witness ==
    \E id \in DOMAIN orders :
        /\ orders[id].updatedAt = orders[id].createdAt + 2
        /\ orders[id].paid /\ orders[id].status = "DELIVERED"
        /\ Len(orders[id].items) = 2 /\ orders[id].totalItems = 3

\* C30: once paidAt of an order is set, no step changes its paidAt or its
\* stripeChargeId.
C30_PaidFieldsSetOnce ==
    [][\A id \in DOMAIN orders :
          orders[id].paidAt # NullDate /\ id \in DOMAIN orders' =>
              /\ orders'[id].paidAt = orders[id].paidAt
              /\ orders'[id].stripeChargeId = orders[id].stripeChargeId]_vars

C30_Witness ==
    /\ last.op = "markAsPaid" /\ last.cause = "unique" /\ last.preStatus = "CANCELLED"
    /\ orders[last.id].paidAt # NullDate
    /\ orders[last.id].paidAt < orders[last.id].updatedAt
    /\ orders[last.id].stripeChargeId = "CH1"

\* C31: when several payment.succeeded events are processed for one order,
\* the order never has two receipts; once it has one it is PAID with paid =
\* true and paidAt set, and an execution that found a receipt wrote nothing
\* and created none.
C31_OneReceiptUnderConcurrency ==
    /\ \A id \in DOMAIN orders :
          /\ Cardinality(ReceiptsOf(id)) <= 1
          /\ HasReceipt(id) =>
                /\ orders[id].status = "PAID" /\ orders[id].paid
                /\ orders[id].paidAt # NullDate
    /\ last.op = "markAsPaid" /\ last.preReceipts > 0 =>
          /\ ~last.changed /\ last.wrote = NoEvent
          /\ last.result = "500" /\ last.cause \in {"unique", "db"}

C31_Witness ==
    /\ last.op = "markAsPaid" /\ last.cause = "unique" /\ last.preStatus = "PAID"
    /\ orders[last.id].status = "PAID" /\ orders[last.id].paid
    /\ Cardinality(ReceiptsOf(last.id)) = 1
    /\ orders[last.id].updatedAt = orders[last.id].createdAt + 1

\* C32: at every point of a createOrder execution the store holds either no
\* row of the order or the header with all the items of the request; it holds
\* none before the repository's create has written, after a failed catalog
\* call or a failed create transaction, and it holds the complete order,
\* PENDING while nothing else has written to it, after a failed payment call.
C32_CreateIsAtomic ==
    \A r \in RequestIds :
        /\ r \in DOMAIN orders =>
              /\ orders[r].items = req[r].data.items
              /\ Len(orders[r].items) >= 1
              /\ orders[r].totalItems = req[r].data.totalItems
              /\ orders[r].totalAmount = req[r].data.totalAmount
        /\ \/ req[r].pc \in {"idle", "validating", "creating"}
           \/ req[r].cause \in {"catalog", "productNotFound", "productNotAvailable", "db"}
           => r \notin DOMAIN orders
        /\ req[r].cause = "payment" =>
              /\ r \in DOMAIN orders
              /\ orders[r].updatedAt = orders[r].createdAt => orders[r].status = "PENDING"

C32_Witness ==
    \E r \in RequestIds :
        /\ req[r].pc = "failed" /\ req[r].cause = "payment"
        /\ r \in DOMAIN orders /\ Len(orders[r].items) = 2
        /\ orders[r].status = "PENDING"

\* C33: every order in the store has at least one item.
C33_PersistedOrderHasItems ==
    \A id \in DOMAIN orders :
        Len(orders[id].items) >= 1 /\ orders[id].totalItems >= 1

C33_Witness ==
    \E r \in RequestIds :
        /\ r \in DOMAIN orders /\ req[r].pc = "done"
        /\ Len(orders[r].items) = 1 /\ orders[r].totalItems = 1

\* C35: the items of an order that findOneOrder returns carry the id, the
\* productId, the quantity and the price persisted for them, so their ids are
\* distinct and non-empty.
C35_ReturnedItemsHydrated ==
    last.op = "findOneOrder" /\ last.result = "ok" /\ last.id \in DOMAIN orders =>
        /\ Len(last.items) = Len(orders[last.id].items)
        /\ \A i \in DOMAIN last.items :
              /\ last.items[i].id = orders[last.id].items[i].id
              /\ last.items[i].productId = orders[last.id].items[i].productId
              /\ last.items[i].quantity = orders[last.id].items[i].quantity
              /\ last.items[i].price = orders[last.id].items[i].price
              /\ last.items[i].id # Undefined
        /\ \A i, j \in DOMAIN last.items : i # j => last.items[i].id # last.items[j].id

\* C34: an order whose status is PAID has paid = true, a paidAt, a
\* stripeChargeId and a receipt.
C34_PaidStatusMeansPaid ==
    \A id \in DOMAIN orders :
        orders[id].status = "PAID" =>
            /\ orders[id].paid /\ orders[id].paidAt # NullDate
            /\ orders[id].stripeChargeId # "null" /\ HasReceipt(id)

C37_StatusUpdateFrame ==
    [][\A p \in ChangeIds :
          chg[p].pc = "updating" /\ chg'[p].pc = "idle" =>
              /\ receipts' = receipts
              /\ DOMAIN orders' = DOMAIN orders
              /\ \A id \in DOMAIN orders :
                    orders'[id] = [orders[id] EXCEPT !.status = orders'[id].status,
                                                     !.updatedAt = orders'[id].updatedAt]]_vars

C37_Witness ==
    /\ last.op = "changeOrderStatus" /\ last.via = "payment.refunded"
    /\ last.preStatus = "PAID" /\ last.changed
    /\ orders[last.id].status = "REFUNDED" /\ orders[last.id].paid
    /\ orders[last.id].paidAt # NullDate /\ orders[last.id].stripeChargeId = "PAY1"
    /\ Cardinality(ReceiptsOf(last.id)) = 1

\* C38: when the store read fails for an order that exists, changeOrderStatus
\* and findOneOrder end with the not-found error of an absent id, and
\* changeOrderStatus goes on to no write.
C38_FailedLookupIsNotFound ==
    [][\A id \in DOMAIN orders :
          /\ \A p \in ChangeIds :
                ChangeFind(p, id, "command", "DELIVERED", FALSE) =>
                    /\ last'.op = "changeOrderStatus"
                    /\ last'.result = "404" /\ last'.cause = "notFound"
                    /\ UNCHANGED <<orders, receipts, chg>>
          /\ \A catalogOk \in BOOLEAN : \A pm \in NameResponses(Products) :
                FindOneOrder(id, FALSE, catalogOk, pm) =>
                    /\ last'.op = "findOneOrder"
                    /\ last'.result = "404" /\ last'.cause = "notFound"]_vars

C38_Witness ==
    /\ last.op \in {"findOneOrder", "changeOrderStatus"}
    /\ last.result = "404" /\ last.preStatus = "PENDING"
    /\ ~MapToDomainThrows(orders[last.id])

\* C39: no order in the store has status PAYMENT_FAILED, and a
\* changeOrderStatus that asked for it ended in an error without changing
\* the store.
C39_NeverPaymentFailed ==
    /\ \A id \in DOMAIN orders : orders[id].status \in PrismaOrderStatus
    /\ last.op = "changeOrderStatus" /\ last.to = "PAYMENT_FAILED" =>
          last.result = "500" /\ ~last.changed

C39_Witness ==
    /\ last.op = "changeOrderStatus" /\ last.to = "PAYMENT_FAILED"
    /\ last.cause = "enum" /\ last.preStatus = "PENDING"
    /\ orders[last.id].status = "PENDING"

====
